---- MODULE Spec2Model ----
(***************************************************************************)
(* Model of app/scalr.py: the primary/replica demo application.           *)
(*                                                                         *)
(* State: the four configuration files under CONFIG_PATH, the databases   *)
(* held by the two MySQL servers, and a record of the last operation that  *)
(* ran (its arguments, the database state it started from, the statements  *)
(* it sent and its outcome).  Every operation of the program is one        *)
(* action; the environment writes and removes configuration files and      *)
(* replicates the primary server's schema and rows to the replica server.  *)
(***************************************************************************)
EXTENDS Integers, Sequences, FiniteSets, TLC

VARIABLES files, dbs, last

vars == <<files, dbs, last>>

----------------------------------------------------------------------------
(* Bounds of the model *)

\* rows a value table may hold before inserts are no longer explored
MaxRows == 2

----------------------------------------------------------------------------
(* Program constants *)

VALUE_LENGTH == 200

MYSQL_ERROR_CODE_UNKNOWN_DB == 1049
MYSQL_ERROR_CODE_NO_HOST == 2005
MYSQL_ERROR_CODE_ACCESS_DENIED == 1045

\* codes of the MySQL client and server that the program does not name:
\* 2003 cannot connect to the server, 1040 too many connections,
\* 1146 table does not exist
OtherConnectCodes == {2003, 1040}
ER_NO_SUCH_TABLE == 1146

\* the loop of ConnectionInfo.__init__: (file name, attribute), in order
ConfigFiles ==
    << <<"mysql-username", "username">>, <<"mysql-password", "password">>,
       <<"mysql-master", "_master">>, <<"mysql-slave", "_slave">> >>

FileNames == {ConfigFiles[i][1] : i \in 1..Len(ConfigFiles)}

----------------------------------------------------------------------------
(* The environment: name resolution, accounts, file contents, form values *)

Missing == "<missing>"

\* Python values a form field may have: a string (its characters) or None
PyStr(chars) == [type |-> "str", s |-> chars]
None == [type |-> "NoneType", s |-> <<>>]

\* a configuration file: whether it exists and, if so, its content
NoFile == [exists |-> FALSE, content |-> <<>>]
File(content) == [exists |-> TRUE, content |-> content]

Hostnames == {"db1", "db1b", "db2", "nohost"}

\* socket.gethostbyname_ex(hostname)[2]: the addresses of a host name; the
\* empty set stands for a name that does not resolve.  db1 and db1b are two
\* names of the same server.
Resolve(hostname) ==
    CASE hostname = "db1" -> {1}
      [] hostname = "db1b" -> {1}
      [] hostname = "db2" -> {2}
      [] OTHER -> {}

Servers == UNION {Resolve(h) : h \in Hostnames}

\* the server that replicates to the other one
ReplicationSource == CHOOSE s \in Servers : \A t \in Servers : s <= t
ReplicationTarget == CHOOSE s \in Servers : \A t \in Servers : t <= s

GoodUsername == "scalr"
GoodPassword == "secret"

\* what a configuration file may hold: the value and a trailing newline.
\* The master is the replication source or a name that does not resolve.
FileContents(fname) ==
    LET texts == CASE fname = "mysql-username" -> {GoodUsername}
                   [] fname = "mysql-password" -> {GoodPassword, "wrong"}
                   [] fname = "mysql-master" -> {"db1", "nohost"}
                   [] OTHER -> Hostnames
    IN  {File(<<t, "\n">>) : t \in texts}

ShortValue == <<"x">>

\* longer than VALUE_LENGTH, and its characters around the cut differ
LongValue ==
    [i \in 1..(VALUE_LENGTH + 2) |->
        IF i < VALUE_LENGTH THEN "a" ELSE IF i = VALUE_LENGTH THEN "b" ELSE "c"]

\* request.form.get('value') for the form of FORM_TEMPLATE, whose text input
\* is always sent: a string
FormValues == {PyStr(ShortValue), PyStr(LongValue)}

----------------------------------------------------------------------------
(* Python helpers *)

Whitespace == {" ", "\n", "\t"}

RECURSIVE LStrip(_)
LStrip(s) ==
    IF s /= <<>> /\ Head(s) \in Whitespace THEN LStrip(Tail(s)) ELSE s

RECURSIVE RStrip(_)
RStrip(s) ==
    IF s /= <<>> /\ s[Len(s)] \in Whitespace
    THEN RStrip(SubSeq(s, 1, Len(s) - 1)) ELSE s

\* str.strip() of a file's content; the content is a sequence of tokens
Strip(s) == RStrip(LStrip(s))

\* f.read().strip(): a file holds one value and whitespace around it
ReadStripped(file) == Strip(file.content)[1]

\* value[:n] forgotten: the value goes to the server as it came
SliceUncut(value, n) == value

\* value[:n]
Slice(value, n) == SubSeq(value, 1, IF Len(value) < n THEN Len(value) ELSE n)

\* sorted(addresses)
RECURSIVE Sorted(_)
Sorted(S) ==
    IF S = {} THEN <<>>
    ELSE LET m == CHOOSE x \in S : \A y \in S : x <= y
         IN  <<m>> \o Sorted(S \ {m})

----------------------------------------------------------------------------
(* The MySQL servers.  A server's state is whether the database ScalrTest  *)
(* exists, whether the table ScalrValues exists in it, and the committed   *)
(* rows of the table in insertion order.                                   *)

EmptyServer == [db |-> FALSE, table |-> FALSE, rows |-> <<>>]

\* exceptions: the class, the MySQL code (e[0]) and, for the program's own
\* NoConnectionEstablished, the descriptor and the message it carries
NoDescriptor == [hostname |-> Missing, username |-> Missing,
                 password |-> Missing, master |-> FALSE, oid |-> Missing]

NoError == <<>>

Exc(type, code, info, error) ==
    [type |-> type, code |-> code, connection_info |-> info, error |-> error]

NoExc == Exc("none", 0, NoDescriptor, NoError)

MySQLError(type, code) == Exc(type, code, NoDescriptor, NoError)

\* MySQLdb.connect(host, user, passwd): 0 when the connection is opened,
\* else the code of the OperationalError it raises.  net is what the network
\* and the server do to an attempt that reaches a resolvable host: 0, or one
\* of OtherConnectCodes.
MySQLdb_connect(host, user, passwd, net) ==
    IF Resolve(host) = {} THEN MYSQL_ERROR_CODE_NO_HOST
    ELSE IF net /= 0 THEN net
    ELSE IF user /= GoodUsername \/ passwd /= GoodPassword
         THEN MYSQL_ERROR_CODE_ACCESS_DENIED
    ELSE 0

\* the server a connection to host talks to
ServerOf(host) == CHOOSE s \in Resolve(host) : TRUE

\* CREATE DATABASE IF NOT EXISTS ScalrTest
CreateDatabaseIfNotExists(d) == [exc |-> NoExc, d |-> [d EXCEPT !.db = TRUE]]

\* USE ScalrTest
UseDatabase(d) ==
    IF d.db THEN [exc |-> NoExc, d |-> d]
    ELSE [exc |-> MySQLError("OperationalError", MYSQL_ERROR_CODE_UNKNOWN_DB),
          d |-> d]

\* CREATE TABLE without IF NOT EXISTS: an existing table is an error (1050)
CreateTable(d) ==
    IF d.table THEN [exc |-> MySQLError("OperationalError", 1050), d |-> d]
    ELSE [exc |-> NoExc, d |-> [d EXCEPT !.table = TRUE]]

\* CREATE TABLE IF NOT EXISTS ScalrValues (val CHAR(VALUE_LENGTH) ...)
CreateTableIfNotExists(d) == [exc |-> NoExc, d |-> [d EXCEPT !.table = TRUE]]

\* SELECT val FROM ScalrValues, and cursor.fetchall()
SelectValues(d) ==
    IF d.table THEN [exc |-> NoExc, rows |-> d.rows]
    ELSE [exc |-> MySQLError("ProgrammingError", ER_NO_SUCH_TABLE),
          rows |-> <<>>]

\* INSERT INTO ScalrValues (val) VALUES (%s), then COMMIT
InsertAndCommit(d, val) ==
    IF d.table THEN [exc |-> NoExc, d |-> [d EXCEPT !.rows = Append(@, val)]]
    ELSE [exc |-> MySQLError("ProgrammingError", ER_NO_SUCH_TABLE), d |-> d]

----------------------------------------------------------------------------
(* class DBConnectionInformation *)

\* __init__; oid is the identity of the Python object
DBConnectionInformation(hostname, username, password, master, oid) ==
    [hostname |-> hostname, username |-> username, password |-> password,
     master |-> master, oid |-> oid]

\* ips(): the joined sorted addresses, or the resolution error's text
ips(self) ==
    IF Resolve(self.hostname) = {} THEN <<"Resolution error">>
    ELSE Sorted(Resolve(self.hostname))

\* the two tests of the except clause with their messages exchanged
ConnectErrorSwapped(self, error_code) ==
    IF error_code = MYSQL_ERROR_CODE_NO_HOST
    THEN <<"The username or password is incorrect.",
           self.username, self.password>>
    ELSE IF error_code = MYSQL_ERROR_CODE_ACCESS_DENIED
    THEN <<"The host does not exist.", self.hostname>>
    ELSE <<"An error occured: Code", error_code>>

\* the message of the NoConnectionEstablished raised for a connect code
ConnectError(self, error_code) ==
    IF error_code = MYSQL_ERROR_CODE_NO_HOST
    THEN <<"The host does not exist.", self.hostname>>
    ELSE IF error_code = MYSQL_ERROR_CODE_ACCESS_DENIED
    THEN <<"The username or password is incorrect.",
           self.username, self.password>>
    ELSE <<"An error occured: Code", error_code>>

\* statement st, which did r, after the statements that did s: it is not
\* sent when one of them raised
Then(s, st, r) ==
    IF s.exc /= NoExc THEN s
    ELSE [exc |-> r.exc, d |-> r.d, log |-> Append(s.log, st)]

NothingSent(d) == [exc |-> NoExc, d |-> d, log |-> <<>>]

\* the statements get_cursor sends on an open connection
SetupSchema(self, d) ==
    IF self.master
    THEN LET c == Then(NothingSent(d), "CREATE DATABASE IF NOT EXISTS",
                       CreateDatabaseIfNotExists(d))
             u == Then(c, "USE", UseDatabase(c.d))
         IN  Then(u, "CREATE TABLE IF NOT EXISTS", CreateTableIfNotExists(u.d))
    ELSE Then(NothingSent(d), "USE", UseDatabase(d))

\* no except clause: the driver's OperationalError leaves get_cursor
ConnectFailedRaw(self, D, error_code) ==
    [exc |-> MySQLError("OperationalError", error_code),
     cursor |-> {}, D |-> D, log |-> <<"CONNECT">>]

\* the except clause of get_cursor: the NoConnectionEstablished it raises
ConnectFailed(self, D, error_code) ==
    [exc |-> Exc("NoConnectionEstablished", error_code, self,
                 ConnectError(self, error_code)),
     cursor |-> {}, D |-> D, log |-> <<"CONNECT">>]

\* get_cursor on an open connection to server srv, where s is what the
\* schema statements did: it returns the cursor or raises their error
Connected(D, srv, s) ==
    [exc |-> s.exc, cursor |-> IF s.exc = NoExc THEN {srv} ELSE {},
     D |-> [D EXCEPT ![srv] = s.d], log |-> <<"CONNECT">> \o s.log]

\* get_cursor once MySQLdb.connect has returned or raised error_code
OnConnect(self, D, error_code) ==
    IF error_code /= 0 THEN ConnectFailed(self, D, error_code)
    ELSE Connected(D, ServerOf(self.hostname),
                   SetupSchema(self, D[ServerOf(self.hostname)]))

\* get_cursor(): exc is what it raises (NoExc: it returns the cursor), D the
\* servers afterwards, log the connection attempts and statements it made
get_cursor(self, D, net) ==
    OnConnect(self, D, MySQLdb_connect(self.hostname, self.username,
                                       self.password, net))

\* the server a cursor talks to
CursorServer(cursor) == CHOOSE s \in cursor : TRUE

\* the try block of get_values: get_cursor returned or raised (c), then the
\* SELECT
TrySelect(c) ==
    IF c.exc /= NoExc
    THEN [exc |-> c.exc, value |-> <<>>, D |-> c.D, log |-> c.log]
    ELSE LET q == SelectValues(c.D[CursorServer(c.cursor)])
         IN  [exc |-> q.exc, value |-> q.rows, D |-> c.D,
              log |-> Append(c.log, "SELECT")]

\* no except clause in get_values: every error is raised
ExceptNothing(t) == t

\* an except clause that returns the empty list for every error
ExceptEverything(t) ==
    IF t.exc /= NoExc THEN [t EXCEPT !.exc = NoExc, !.value = <<>>] ELSE t

\* the except and else clauses of get_values
ExceptUnknownDb(t) ==
    IF t.exc.type = "OperationalError"
       /\ t.exc.code = MYSQL_ERROR_CODE_UNKNOWN_DB
    THEN [t EXCEPT !.exc = NoExc, !.value = <<>>]
    ELSE t

\* get_values(): value is the list it returns
get_values(self, D, net) == ExceptUnknownDb(TrySelect(get_cursor(self, D, net)))

\* insert(value) once get_cursor has returned or raised (c)
InsertWith(c, value) ==
    IF c.exc /= NoExc
    THEN [exc |-> c.exc, value |-> <<>>, D |-> c.D, log |-> c.log]
    ELSE IF value = None
    THEN [exc |-> Exc("TypeError", 0, NoDescriptor, NoError),
          value |-> <<>>, D |-> c.D, log |-> c.log]
    ELSE LET i == InsertAndCommit(c.D[CursorServer(c.cursor)],
                                  Slice(value.s, VALUE_LENGTH))
         IN  [exc |-> i.exc, value |-> <<>>,
              D |-> [c.D EXCEPT ![CursorServer(c.cursor)] = i.d],
              log |-> IF i.exc = NoExc
                      THEN c.log \o <<"INSERT", "COMMIT">>
                      ELSE Append(c.log, "INSERT")]

\* insert(value)
insert(self, value, D, net) == InsertWith(get_cursor(self, D, net), value)

----------------------------------------------------------------------------
(* class ConnectionInfo *)

NoObject == [username |-> Missing, password |-> Missing,
             _master |-> Missing, _slave |-> Missing]

\* the loop of __init__ from entry i on: the first file that cannot be
\* opened raises NoConnectionInfo, else the attribute is set
RECURSIVE LoadFrom(_, _, _)
LoadFrom(F, i, obj) ==
    IF i > Len(ConfigFiles) THEN [exc |-> NoExc, obj |-> obj]
    ELSE IF ~F[ConfigFiles[i][1]].exists
    THEN [exc |-> Exc("NoConnectionInfo", 0, NoDescriptor, NoError),
          obj |-> NoObject]
    ELSE LoadFrom(F, i + 1,
            [obj EXCEPT ![ConfigFiles[i][2]] = ReadStripped(F[ConfigFiles[i][1]])])

\* a loop that does not read mysql-username
ConnectionInfoSkipsUsername(F) == LoadFrom(F, 2, NoObject)

\* ConnectionInfo(): exc is NoConnectionInfo, or obj is the new object
ConnectionInfo(F) == LoadFrom(F, 1, NoObject)

_connection_information(self, master, oid) ==
    DBConnectionInformation(IF master THEN self._master ELSE self._slave,
                            self.username, self.password, master, oid)

\* the properties master and slave: each access builds a new object
Master(self, oid) == _connection_information(self, TRUE, oid)
Slave(self, oid) == _connection_information(self, FALSE, oid)

\* the bound method obj.name; two bound methods are equal when they are
\* the same function bound to the same object
BoundMethod(obj, name) == [im_self |-> obj.oid, im_func |-> name]

\* replicating(): compares self.master.ips with self.slave.ips, the bound
\* methods of two objects that are alive together
replicating(self) ==
    BoundMethod(Master(self, "object 1"), "ips")
        /= BoundMethod(Slave(self, "object 2"), "ips")

----------------------------------------------------------------------------
(* The pages *)

Response(exc, template, error, values, status, D, log) ==
    [exc |-> exc, template |-> template, error |-> error, values |-> values,
     replicating |-> status, D |-> D, log |-> log]

\* the MySQL Status block of FORM_TEMPLATE shows connection_info.replicating()
\* ; BASE_TEMPLATE and WRITE_ERROR_TEMPLATE, which extends it, do not
StatusBlock(template, self) ==
    IF template \in {"connected_template", "read_error_template"}
    THEN IF replicating(self) THEN "True" ELSE "False"
    ELSE "not shown"

\* template.render(ctx)
Render(template, self, error, values, D, log) ==
    Response(NoExc, template, error, values, StatusBlock(template, self), D, log)

\* an exception leaves the page
Raised(r) == Response(r.exc, "none", NoError, <<>>, "not shown", r.D, r.log)

\* page_get(ctx) once get_values has returned or raised (v)
ShowValues(self, v) ==
    IF v.exc /= NoExc THEN Raised(v)
    ELSE Render("connected_template", self, NoError, v.value, v.D, v.log)

\* page_get(ctx)
page_get(self, D, net) ==
    ShowValues(self, get_values(Slave(self, "object 1"), D, net))

\* page_post(ctx) once insert has returned or raised (i)
RedirectAfter(i) ==
    IF i.exc /= NoExc THEN Raised(i)
    ELSE Response(NoExc, "redirect", NoError, <<>>, "not shown", i.D, i.log)

\* page_post(ctx); value is request.form.get('value')
page_post(self, value, D, net) ==
    RedirectAfter(insert(Master(self, "object 1"), value, D, net))

Pages == {"page_get", "page_post"}

\* the two error views exchanged
ErrorTemplateSwapped(err) ==
    IF err.connection_info.master THEN "read_error_template"
    ELSE "write_error_template"

\* the error view of a NoConnectionEstablished
ErrorTemplate(err) ==
    IF err.connection_info.master THEN "write_error_template"
    ELSE "read_error_template"

\* the inner try of inner: r is what page(ctx) returned or raised.  A
\* response whose exc is not NoExc is an exception that leaves inner.
Catch(self, r) ==
    IF r.exc.type = "NoConnectionEstablished"
    THEN Render(ErrorTemplate(r.exc), self, r.exc.error, <<>>, r.D, r.log)
    ELSE r

\* inner once ConnectionInfo() has returned or raised (ci)
Serve(page, ci, value, D, net) ==
    IF ci.exc.type = "NoConnectionInfo"
    THEN Response(NoExc, "base_template", NoError, <<>>, "not shown", D, <<>>)
    ELSE Catch(ci.obj, IF page = "page_get" THEN page_get(ci.obj, D, net)
                       ELSE page_post(ci.obj, value, D, net))

\* prepare_page(page): the function inner that serves a request
inner(page, F, value, D, net) == Serve(page, ConnectionInfo(F), value, D, net)

----------------------------------------------------------------------------
(* The state machine *)

Idle == [op |-> "idle"]

\* the record of an operation: the descriptor it ran on (NoDescriptor for a
\* page), the form value, what the network did, the servers before it, and
\* its result
Ran(op, self, value, net, res) ==
    [op |-> op, self |-> self, value |-> value, net |-> net, pre |-> dbs,
     res |-> res]

NetOutcomes == {0} \cup OtherConnectCodes

\* no table is full: inserts are still explored
RoomForRows == \A s \in Servers : Len(dbs[s].rows) < MaxRows

Init ==
    /\ files = [f \in FileNames |-> NoFile]
    /\ dbs = [s \in Servers |-> EmptyServer]
    /\ last = Idle

(* the environment *)

WriteFile ==
    \E f \in FileNames : \E c \in FileContents(f) :
        /\ files[f] /= c
        /\ files' = [files EXCEPT ![f] = c]
        /\ last' = Idle
        /\ UNCHANGED dbs

RemoveFile ==
    \E f \in FileNames :
        /\ files[f].exists
        /\ files' = [files EXCEPT ![f] = NoFile]
        /\ last' = Idle
        /\ UNCHANGED dbs

\* the replica server applies the next event of the primary server
ReplicateDatabase ==
    /\ dbs[ReplicationSource].db /\ ~dbs[ReplicationTarget].db
    /\ dbs' = [dbs EXCEPT ![ReplicationTarget].db = TRUE]
    /\ last' = Idle
    /\ UNCHANGED files

ReplicateTable ==
    /\ dbs[ReplicationSource].table
    /\ dbs[ReplicationTarget].db /\ ~dbs[ReplicationTarget].table
    /\ dbs' = [dbs EXCEPT ![ReplicationTarget].table = TRUE]
    /\ last' = Idle
    /\ UNCHANGED files

ReplicateRow ==
    /\ dbs[ReplicationTarget].table
    /\ Len(dbs[ReplicationTarget].rows) < Len(dbs[ReplicationSource].rows)
    /\ dbs' = [dbs EXCEPT ![ReplicationTarget].rows =
                 Append(@, dbs[ReplicationSource].rows[Len(@) + 1])]
    /\ last' = Idle
    /\ UNCHANGED files

(* the program *)

\* a descriptor of the configured resolver: its master or slave property
Descriptor(master) == _connection_information(ConnectionInfo(files).obj,
                                              master, "object 1")

\* the operation ran with result r
Do(op, self, value, net, r) ==
    /\ last' = Ran(op, self, value, net, r)
    /\ dbs' = r.D
    /\ UNCHANGED files

GetCursor ==
    \E master \in BOOLEAN, net \in NetOutcomes :
        /\ ConnectionInfo(files).exc = NoExc
        /\ Do("get_cursor", Descriptor(master), None, net,
              get_cursor(Descriptor(master), dbs, net))

\* connection_info.replicating(), as the MySQL Status block calls it
Replicating ==
    /\ ConnectionInfo(files).exc = NoExc
    /\ Do("replicating", NoDescriptor, None, 0,
          [value |-> replicating(ConnectionInfo(files).obj), D |-> dbs])

GetValues ==
    \E master \in BOOLEAN, net \in NetOutcomes :
        /\ ConnectionInfo(files).exc = NoExc
        /\ Do("get_values", Descriptor(master), None, net,
              get_values(Descriptor(master), dbs, net))

\* insert is only called on the master descriptor
Insert ==
    \E value \in FormValues, net \in NetOutcomes :
        /\ ConnectionInfo(files).exc = NoExc
        /\ RoomForRows
        /\ Do("insert", Descriptor(TRUE), value, net,
              insert(Descriptor(TRUE), value, dbs, net))

\* a GET is served in every state, configured or not
PageGet ==
    \E net \in NetOutcomes :
        /\ files \in [FileNames -> {NoFile} \cup UNION {FileContents(f) : f \in FileNames}]
        /\ Do("page_get", NoDescriptor, None, net,
              inner("page_get", files, None, dbs, net))

PagePost ==
    \E value \in FormValues, net \in NetOutcomes :
        /\ RoomForRows
        /\ Do("page_post", NoDescriptor, value, net,
              inner("page_post", files, value, dbs, net))

Next ==
    \/ WriteFile
    \/ RemoveFile
    \/ ReplicateDatabase
    \/ ReplicateTable
    \/ ReplicateRow
    \/ GetCursor
    \/ Replicating
    \/ GetValues
    \/ Insert
    \/ PageGet
    \/ PagePost

Spec == Init /\ [][Next]_vars

----------------------------------------------------------------------------
(* Vocabulary of the properties *)

DescriptorOps == {"get_cursor", "get_values", "insert"}

CreateStatements ==
    {"CREATE DATABASE IF NOT EXISTS", "CREATE TABLE IF NOT EXISTS"}

Count(x, seq) == Cardinality({i \in DOMAIN seq : seq[i] = x})

Sends(log, statements) == \E i \in DOMAIN log : log[i] \in statements

\* the code of the connection attempt of the last operation on descriptor d
ConnectCode(d, net) ==
    MySQLdb_connect(d.hostname, d.username, d.password, net)

\* the reason a NoConnectionEstablished message states
Reason(error) ==
    CASE error = NoError -> "none"
      [] error[1] = "The host does not exist." -> "HostUnreachable"
      [] error[1] = "The username or password is incorrect."
            -> "AuthenticationRejected"
      [] error[1] = "An error occured: Code" -> "Unknown"
      [] OTHER -> "none"

Reasons == {"HostUnreachable", "AuthenticationRejected", "Unknown"}

MissingSome == \E f \in FileNames : ~files[f].exists

\* the resolver of the current configuration, and the descriptor a page uses
Resolver == ConnectionInfo(files).obj
PageDescriptor(page) ==
    IF page = "page_get" THEN Slave(Resolver, "object 1")
    ELSE Master(Resolver, "object 1")

ErrorTemplates == {"read_error_template", "write_error_template"}

Outcomes == {"connected_template", "base_template", "read_error_template",
             "write_error_template", "redirect"}

SameSchema(D, E) ==
    \A s \in Servers : D[s].db = E[s].db /\ D[s].table = E[s].table

IsPrefix(a, b) == Len(a) <= Len(b) /\ SubSeq(b, 1, Len(a)) = a

----------------------------------------------------------------------------
(* C1 *)

\* get_cursor returned a usable cursor on the server of the descriptor
ReturnedCursor(self, r, net) ==
    /\ r.exc = NoExc
    /\ ConnectCode(self, net) = 0
    /\ r.cursor = {ServerOf(self.hostname)}
    /\ r.D[ServerOf(self.hostname)].db

\* get_cursor raised one NoConnectionEstablished with a reason and the
\* descriptor
RaisedClassified(self, r, net) ==
    /\ r.exc.type = "NoConnectionEstablished"
    /\ ConnectCode(self, net) /= 0
    /\ r.exc.connection_info = self
    /\ Reason(r.exc.error) \in Reasons
    /\ r.cursor = {}

\* get_cursor of a replica descriptor raised the driver's unknown-database
\* error, unclassified, because the server has no database yet
RaisedUnknownDb(self, r, pre, net) ==
    /\ ~self.master
    /\ ConnectCode(self, net) = 0
    /\ ~pre[ServerOf(self.hostname)].db
    /\ r.exc = MySQLError("OperationalError", MYSQL_ERROR_CODE_UNKNOWN_DB)
    /\ r.cursor = {}

\* C1 as stated: one call of get_cursor, on either descriptor and in every
\* database state, either returns a usable cursor or raises exactly one
\* NoConnectionEstablished carrying a reason and the descriptor; nothing
\* else leaves get_cursor.
C1_TwoOutcomes ==
    last.op = "get_cursor" =>
        \/ ReturnedCursor(last.self, last.res, last.net)
        \/ RaisedClassified(last.self, last.res, last.net)

\* C1 amended: one call of get_cursor returns a usable cursor, or raises
\* exactly one NoConnectionEstablished carrying a reason and the descriptor,
\* or, on a replica descriptor whose server has no database, raises the
\* driver's unknown-database error (code 1049) unclassified; a primary
\* descriptor has only the first two outcomes.
C1_ThreeOutcomes ==
    last.op = "get_cursor" =>
        \/ ReturnedCursor(last.self, last.res, last.net)
        \/ RaisedClassified(last.self, last.res, last.net)
        \/ RaisedUnknownDb(last.self, last.res, last.pre, last.net)

C1_Witness ==
    /\ last.op = "get_cursor"
    /\ RaisedUnknownDb(last.self, last.res, last.pre, last.net)
    /\ last.pre[ReplicationSource].db

----------------------------------------------------------------------------
(* C2 *)

\* C2: replicating() is false whenever the master and slave host names
\* resolve to the same address set, and true whenever the sets differ.
C2_ReplicatingComparesAddresses ==
    last.op = "replicating" =>
        last.res.value = (Resolve(Resolver._master) /= Resolve(Resolver._slave))

----------------------------------------------------------------------------
(* C3 *)

\* C3: with any of the four configuration files missing, ConnectionInfo()
\* raises NoConnectionInfo and yields no object, and the request renders the
\* base template without a connection attempt, a statement or a change of
\* any database; with all four present construction succeeds.
C3_MissingConfiguration ==
    /\ (ConnectionInfo(files).exc.type = "NoConnectionInfo") <=> MissingSome
    /\ MissingSome => ConnectionInfo(files).obj = NoObject
    /\ ~MissingSome =>
          /\ ConnectionInfo(files).exc = NoExc
          /\ \A i \in 1..Len(ConfigFiles) :
                <<Resolver[ConfigFiles[i][2]], "\n">>
                    = files[ConfigFiles[i][1]].content
    /\ (last.op \in Pages /\ MissingSome) =>
          /\ last.res.exc = NoExc
          /\ last.res.template = "base_template"
          /\ last.res.log = <<>>
          /\ last.res.D = last.pre /\ dbs = last.pre
    /\ (last.op \in Pages /\ ~MissingSome) =>
          last.res.template /= "base_template"

C3_Witness ==
    /\ last.op = "page_post"
    /\ \A f \in FileNames : files[f].exists <=> f /= "mysql-slave"
    /\ files["mysql-master"] = File(<<"db1", "\n">>)
    /\ files["mysql-password"] = File(<<GoodPassword, "\n">>)
    /\ last.res.template = "base_template"
    /\ ~dbs[ReplicationSource].db

----------------------------------------------------------------------------
(* C4 *)

\* C4: when the connection is opened and the database does not exist on the
\* server a descriptor points to, get_values returns the empty list and
\* raises nothing, on a replica descriptor and on a primary descriptor.
C4_AbsentDatabaseReadsEmpty ==
    (/\ last.op = "get_values"
     /\ ConnectCode(last.self, last.net) = 0
     /\ ~last.pre[ServerOf(last.self.hostname)].db)
    => /\ last.res.exc = NoExc
       /\ last.res.value = <<>>

C4_Witness ==
    /\ last.op = "get_values"
    /\ ~last.self.master
    /\ ConnectCode(last.self, last.net) = 0
    /\ ~last.pre[ServerOf(last.self.hostname)].db
    /\ last.pre[ReplicationSource].rows /= <<>>
    /\ last.res.exc = NoExc
    /\ last.res.value = <<>>
    /\ last.res.log = <<"CONNECT", "USE">>

----------------------------------------------------------------------------
(* C5 *)

\* C5: a failed connection is classified from its code into exactly one
\* reason: 2005 gives HostUnreachable, 1045 gives AuthenticationRejected,
\* every other code gives Unknown with the raw code; so a host that does not
\* exist gives HostUnreachable and a wrong password gives
\* AuthenticationRejected.
C5_Classification ==
    last.op \in DescriptorOps =>
        LET self == last.self
            code == ConnectCode(self, last.net)
            error == last.res.exc.error
        IN  /\ code /= 0 => last.res.exc.type = "NoConnectionEstablished"
            /\ code = MYSQL_ERROR_CODE_NO_HOST =>
                  Reason(error) = "HostUnreachable" /\ error[2] = self.hostname
            /\ code = MYSQL_ERROR_CODE_ACCESS_DENIED =>
                  /\ Reason(error) = "AuthenticationRejected"
                  /\ error[2] = self.username /\ error[3] = self.password
            /\ code \notin {0, MYSQL_ERROR_CODE_NO_HOST,
                            MYSQL_ERROR_CODE_ACCESS_DENIED} =>
                  Reason(error) = "Unknown" /\ error[2] = code
            /\ Resolve(self.hostname) = {} => Reason(error) = "HostUnreachable"
            /\ (/\ Resolve(self.hostname) /= {} /\ last.net = 0
                /\ self.password /= GoodPassword) =>
                  Reason(error) = "AuthenticationRejected"

C5_Witness ==
    /\ last.op = "get_cursor"
    /\ Resolve(last.self.hostname) /= {}
    /\ last.net = 0
    /\ last.self.password /= GoodPassword
    /\ Reason(last.res.exc.error) = "AuthenticationRejected"

----------------------------------------------------------------------------
(* C6 *)

\* C6: only a primary descriptor sends the CREATE statements; a replica
\* descriptor sends USE alone and creates nothing.  The setup is idempotent:
\* whenever it is sent it raises nothing, the database and the table exist
\* afterwards, the rows that were there are kept, and sent again on a
\* provisioned primary it changes nothing.
C6_SchemaSetup ==
    /\ (last.op \in DescriptorOps /\ ~last.self.master) =>
          /\ ~Sends(last.res.log, CreateStatements)
          /\ SameSchema(last.res.D, last.pre)
    /\ last.op = "page_get" =>
          /\ ~Sends(last.res.log, CreateStatements)
          /\ last.res.D = last.pre
    /\ (last.op \in DescriptorOps /\ Sends(last.res.log, CreateStatements)) =>
          LET srv == ServerOf(last.self.hostname)
          IN  /\ last.self.master
              /\ Count("CREATE DATABASE IF NOT EXISTS", last.res.log) = 1
              /\ Count("CREATE TABLE IF NOT EXISTS", last.res.log) = 1
              /\ last.res.exc = NoExc
              /\ last.res.D[srv].db /\ last.res.D[srv].table
              /\ IsPrefix(last.pre[srv].rows, last.res.D[srv].rows)
              /\ \A s \in Servers \ {srv} : last.res.D[s] = last.pre[s]
              /\ (last.op = "get_cursor" /\ last.pre[srv].table) =>
                    last.res.D = last.pre

C6_Witness ==
    /\ last.op = "get_cursor"
    /\ last.self.master
    /\ Sends(last.res.log, CreateStatements)
    /\ last.pre[ServerOf(last.self.hostname)].table
    /\ last.pre[ServerOf(last.self.hostname)].rows /= <<>>
    /\ last.res.exc = NoExc
    /\ last.res.D = last.pre

----------------------------------------------------------------------------
(* C7 *)

\* what a successful insert of value v through descriptor self did
AppendedOneRow(self, v, pre, r) ==
    LET srv == ServerOf(self.hostname)
        old == pre[srv].rows
        new == r.D[srv].rows
        stored == new[Len(new)]
    IN  /\ Len(new) = Len(old) + 1
        /\ IsPrefix(old, new)
        /\ Len(stored) = IF Len(v) < VALUE_LENGTH THEN Len(v) ELSE VALUE_LENGTH
        /\ \A i \in 1..Len(stored) : stored[i] = v[i]
        /\ \A s \in Servers \ {srv} : r.D[s] = pre[s]
        /\ SubSeq(r.log, Len(r.log) - 1, Len(r.log)) = <<"INSERT", "COMMIT">>
        /\ Count("INSERT", r.log) = 1

\* C7: each successful insert(v) on a primary descriptor appends exactly one
\* row holding the first min(len(v), VALUE_LENGTH) characters of v, commits
\* it and leaves the earlier rows unchanged; no stored value is longer than
\* VALUE_LENGTH.
C7_InsertAppendsTruncated ==
    /\ (last.op = "insert" /\ last.res.exc = NoExc) =>
          AppendedOneRow(last.self, last.value.s, last.pre, last.res)
    /\ (last.op = "page_post" /\ last.res.template = "redirect") =>
          AppendedOneRow(PageDescriptor("page_post"), last.value.s, last.pre,
                         last.res)
    /\ \A s \in Servers : \A i \in DOMAIN dbs[s].rows :
          Len(dbs[s].rows[i]) <= VALUE_LENGTH

C7_Witness ==
    /\ last.op = "insert"
    /\ last.res.exc = NoExc
    /\ last.value = PyStr(LongValue)
    /\ Len(last.pre[ReplicationSource].rows) = 1
    /\ Len(dbs[ReplicationSource].rows) = 2
    /\ dbs[ReplicationSource].rows[1] = dbs[ReplicationSource].rows[2]
    /\ Len(dbs[ReplicationSource].rows[2]) = VALUE_LENGTH
    /\ dbs[ReplicationSource].rows[2][VALUE_LENGTH] = "b"

----------------------------------------------------------------------------
(* C8 *)

\* C8: a NoConnectionEstablished never leaves the request handler; the
\* handler renders the error view of the role of the descriptor that failed,
\* with the reason.  A GET uses the replica descriptor alone and a POST the
\* primary descriptor alone, so a failed GET renders the read-error view and
\* a failed POST the write-error view.
C8_ErrorViewByRole ==
    (last.op \in Pages /\ ~MissingSome) =>
        LET d == PageDescriptor(last.op)
            code == ConnectCode(d, last.net)
        IN  /\ last.res.exc.type /= "NoConnectionEstablished"
            /\ code /= 0 =>
                  /\ last.res.exc = NoExc
                  /\ last.res.template =
                        IF last.op = "page_get" THEN "read_error_template"
                        ELSE "write_error_template"
                  /\ Reason(last.res.error) \in Reasons
                  /\ last.res.error = ConnectError(d, code)
            /\ code = 0 => last.res.template \notin ErrorTemplates
            /\ last.op = "page_get" =>
                  ~Sends(last.res.log, CreateStatements \cup {"INSERT"})
            /\ last.op = "page_post" => ~Sends(last.res.log, {"SELECT"})

C8_Witness ==
    /\ last.op = "page_get"
    /\ ~MissingSome
    /\ ConnectCode(PageDescriptor("page_post"), 0) = 0
    /\ Resolve(PageDescriptor("page_get").hostname) = {}
    /\ last.res.template = "read_error_template"
    /\ Reason(last.res.error) = "HostUnreachable"

----------------------------------------------------------------------------
(* C9 *)

\* C9: get_values and insert make exactly one connection attempt; when it
\* fails, the NoConnectionEstablished reaches the caller, and no second
\* attempt, schema statement, query or insert follows: the databases are
\* unchanged and the failure is not turned into an empty result.
C9_NoRetry ==
    last.op \in {"get_values", "insert"} =>
        /\ Count("CONNECT", last.res.log) = 1
        /\ last.res.log[1] = "CONNECT"
        /\ ConnectCode(last.self, last.net) /= 0 =>
              /\ last.res.exc.type = "NoConnectionEstablished"
              /\ last.res.exc.connection_info = last.self
              /\ last.res.log = <<"CONNECT">>
              /\ last.res.D = last.pre /\ dbs = last.pre

C9_Witness ==
    /\ last.op = "get_values"
    /\ ConnectCode(last.self, last.net) = MYSQL_ERROR_CODE_ACCESS_DENIED
    /\ last.res.exc.type = "NoConnectionEstablished"
    /\ last.res.log = <<"CONNECT">>
    /\ \E s \in Servers : last.pre[s].table

----------------------------------------------------------------------------
(* C10 *)

\* C10: in every state of the configuration and of the two databases, a
\* replica that lags the primary included, every GET and every POST ends
\* in the values page, the unconfigured page, the read-error page, the
\* write-error page or the redirect; no exception leaves the handler.
C10_EveryRequestEndsInAView ==
    last.op \in Pages =>
        /\ last.res.exc = NoExc
        /\ last.res.template \in Outcomes

====
